---- MODULE Spec2Model ----
(***************************************************************************)
(* Model of the Jira extraction pipeline: main (src/app/main.py) runs      *)
(* jira_extraction, transform_extracted_data and load_extraction           *)
(* (src/funcs/utils.py), each wrapped by time_decorator(log_decorator(.))  *)
(* (src/decorators/decorators.py).                                         *)
(*                                                                         *)
(* Python values are tagged records, so that values of different Python    *)
(* types can be compared: None, int, list, object (attribute holder) and   *)
(* str.  A str is either an opaque text (Str) or, when its characters      *)
(* matter to datetime.strptime/strftime, a sequence of characters (Chars). *)
(***************************************************************************)
EXTENDS Integers, Sequences, FiniteSets, TLC

\* ------------------------------------------------------------------------
\* Python values
\* ------------------------------------------------------------------------
None == [none |-> TRUE]
Str(s) == [str |-> s]
Chars(cs) == [chars |-> cs]
Num(n) == [int |-> n]
List(xs) == [list |-> xs]
Obj(attrs) == [obj |-> attrs]

IsNone(v) == v = None
IsText(v) == DOMAIN v = {"str"}
IsChars(v) == DOMAIN v = {"chars"}
IsInt(v) == DOMAIN v = {"int"}
IsList(v) == DOMAIN v = {"list"}
IsObj(v) == DOMAIN v = {"obj"}

\* Python truth value of an object: None, 0, '' and [] are false.
Truthy(v) ==
    IF IsNone(v) THEN FALSE
    ELSE IF IsInt(v) THEN v.int # 0
    ELSE IF IsText(v) THEN v.str # ""
    ELSE IF IsChars(v) THEN v.chars # <<>>
    ELSE IF IsList(v) THEN v.list # <<>>
    ELSE TRUE

\* Attribute lookup on a jira resource (PropertyHolder / Resource): the
\* attributes of an object are the domain of its attribute function.
HasAttr(o, name) == IsObj(o) /\ name \in DOMAIN o.obj

\* getattr(o, name, default): the default is used only when the attribute
\* does not exist (also when o is None); an attribute holding None is found.
GetAttr(o, name, default) == IF HasAttr(o, name) THEN o.obj[name] ELSE default

\* The literal 'N/A' (it reaches reformat_date, so it is kept as characters).
NA == Chars(<<"N", "/", "A">>)

\* ------------------------------------------------------------------------
\* datetime.strptime(date_str, "%Y-%m-%dT%H:%M:%S.%f%z")
\*          .strftime("%d/%m/%Y %H:%M:%S")
\* ------------------------------------------------------------------------
Digits == <<"0", "1", "2", "3", "4", "5", "6", "7", "8", "9">>
IsDigit(c) == \E i \in 1..10 : Digits[i] = c
DigitVal(c) == (CHOOSE i \in 1..10 : Digits[i] = c) - 1

\* Number of consecutive digits of cs starting at position p, up to lim.
RECURSIVE DigitRun(_, _, _)
DigitRun(cs, p, lim) ==
    IF lim = 0 \/ p > Len(cs) \/ ~IsDigit(cs[p]) THEN 0
    ELSE 1 + DigitRun(cs, p + 1, lim - 1)

\* Value of the n digits of cs starting at position p.
RECURSIVE NumAt(_, _, _)
NumAt(cs, p, n) ==
    IF n = 0 THEN 0 ELSE NumAt(cs, p, n - 1) * 10 + DigitVal(cs[p + n - 1])

\* A numeric directive at position p: between lo and hi digits, all the
\* digits up to the next literal (n is their number).  n = 0: no match.
NumFieldOf(cs, p, lo, hi, n) ==
    IF n >= lo /\ n <= hi THEN [n |-> n, val |-> NumAt(cs, p, n), next |-> p + n]
    ELSE [n |-> 0, val |-> 0, next |-> p]

NumField(cs, p, lo, hi) == NumFieldOf(cs, p, lo, hi, DigitRun(cs, p, hi + 1))

LitAt(cs, p, c) == p <= Len(cs) /\ cs[p] = c

IsLeap(y) == (y % 4 = 0 /\ y % 100 # 0) \/ y % 400 = 0
DaysInMonth(y, m) ==
    IF m = 2 THEN (IF IsLeap(y) THEN 29 ELSE 28)
    ELSE IF m \in {4, 6, 9, 11} THEN 30 ELSE 31

\* %z: Z, or a sign, two digits of hours, an optional colon, and minutes
\* 00..59.  Yields the position after the offset, 0 when it does not match.
ZoneMinutesEnd(cs, q) ==
    IF DigitRun(cs, q, 2) = 2 /\ DigitVal(cs[q]) <= 5 THEN q + 2 ELSE 0

ZoneEnd(cs, p) ==
    IF LitAt(cs, p, "Z") THEN p + 1
    ELSE IF (LitAt(cs, p, "+") \/ LitAt(cs, p, "-")) /\ DigitRun(cs, p + 1, 2) = 2
    THEN ZoneMinutesEnd(cs, IF LitAt(cs, p + 3, ":") THEN p + 4 ELSE p + 3)
    ELSE 0

\* The text matches the format: every directive matched (Y .. f are the
\* numeric fields, z the end of the offset), the literals are in place and
\* nothing is left over.
Matches(cs, Y, m, d, H, M, S, f, z) ==
    /\ Y.n = 4 /\ LitAt(cs, Y.next, "-")
    /\ m.n > 0 /\ m.val \in 1..12 /\ LitAt(cs, m.next, "-")
    /\ d.n > 0 /\ d.val \in 1..31 /\ LitAt(cs, d.next, "T")
    /\ H.n > 0 /\ H.val \in 0..23 /\ LitAt(cs, H.next, ":")
    /\ M.n > 0 /\ M.val \in 0..59 /\ LitAt(cs, M.next, ":")
    /\ S.n > 0 /\ S.val \in 0..61 /\ LitAt(cs, S.next, ".")
    /\ f.n > 0
    /\ z = Len(cs) + 1

\* The matched fields name a date and time that datetime accepts.
ValidDate(Y, m, d, S) ==
    /\ Y.val >= 1
    /\ d.val <= DaysInMonth(Y.val, m.val)
    /\ S.val <= 59

Parsed(cs, Y, m, d, H, M, S, f, z) ==
    IF Matches(cs, Y, m, d, H, M, S, f, z) /\ ValidDate(Y, m, d, S)
    THEN [ok |-> TRUE, year |-> Y.val, month |-> m.val, day |-> d.val,
          hour |-> H.val, minute |-> M.val, second |-> S.val]
    ELSE [ok |-> FALSE]

\* The directives in turn, each starting after the literal that follows the
\* previous one.
ParseZone(cs, Y, m, d, H, M, S, f) == Parsed(cs, Y, m, d, H, M, S, f, ZoneEnd(cs, f.next))
ParseFraction(cs, Y, m, d, H, M, S) ==
    ParseZone(cs, Y, m, d, H, M, S, NumField(cs, S.next + 1, 1, 6))
ParseSecond(cs, Y, m, d, H, M) ==
    ParseFraction(cs, Y, m, d, H, M, NumField(cs, M.next + 1, 1, 2))
ParseMinute(cs, Y, m, d, H) == ParseSecond(cs, Y, m, d, H, NumField(cs, H.next + 1, 1, 2))
ParseHour(cs, Y, m, d) == ParseMinute(cs, Y, m, d, NumField(cs, d.next + 1, 1, 2))
ParseDay(cs, Y, m) == ParseHour(cs, Y, m, NumField(cs, m.next + 1, 1, 2))
ParseMonth(cs, Y) == ParseDay(cs, Y, NumField(cs, Y.next + 1, 1, 2))

\* strptime: the parsed fields, or ok = FALSE (ValueError) when the text does
\* not match the format, is followed by unconverted data, or names no date.
strptime(cs) == ParseMonth(cs, NumField(cs, 1, 4, 4))

Pad2(n) == <<Digits[(n \div 10) + 1], Digits[(n % 10) + 1]>>

\* %Y prints the year without leading zeros (C library behaviour).
RECURSIVE YearDigits(_)
YearDigits(y) ==
    IF y < 10 THEN <<Digits[y + 1]>>
    ELSE Append(YearDigits(y \div 10), Digits[(y % 10) + 1])

strftime_monthFirst(t) ==
    Pad2(t.month) \o <<"/">> \o Pad2(t.day) \o <<"/">> \o YearDigits(t.year)
    \o <<" ">> \o Pad2(t.hour) \o <<":">> \o Pad2(t.minute) \o <<":">> \o Pad2(t.second)

strftime(t) ==
    Pad2(t.day) \o <<"/">> \o Pad2(t.month) \o <<"/">> \o YearDigits(t.year)
    \o <<" ">> \o Pad2(t.hour) \o <<":">> \o Pad2(t.minute) \o <<":">> \o Pad2(t.second)

\* Line 35 on the outcome of line 34.
Reformatted(t) ==
    IF t.ok THEN [ok |-> TRUE, value |-> Chars(strftime(t))]
    ELSE [ok |-> FALSE, err |-> "ValueError"]

\* reformat_date: [ok, value] or [ok = FALSE, err].  pd.isnull is true of
\* None; a non-str argument makes strptime raise TypeError; an opaque text
\* is a text that is no timestamp.
reformat_date(date_str) ==
    IF IsNone(date_str) \/ date_str = NA THEN [ok |-> TRUE, value |-> date_str]
    ELSE IF IsChars(date_str) THEN Reformatted(strptime(date_str.chars))
    ELSE IF IsText(date_str) THEN [ok |-> FALSE, err |-> "ValueError"]
    ELSE [ok |-> FALSE, err |-> "TypeError"]

\* ------------------------------------------------------------------------
\* jira_extraction: one issue of a result page to rows of combined_data
\* ------------------------------------------------------------------------
\* o.name raises AttributeError unless the attribute exists.
Raises(o, name) == ~HasAttr(o, name)

IssueColumns ==
    <<"Issue Key", "Summary", "Priority", "Labels", "Assignee", "Status",
      "Creator", "Custom Field 10160", "Custom Field 10163",
      "Custom Field 10175", "Time Spent", "Project", "Created", "Updated",
      "Description", "Sprint", "E-mail Solicitante", "Nome do Solicitante",
      "Start Date", "End Data", "Parent">>

WorklogColumns ==
    <<"Worklog Author", "Worklog Comment", "Worklog Created",
      "Worklog Started", "Worklog Time Spent", "Worklog Time Spent Seconds">>

Range(s) == {s[i] : i \in DOMAIN s}

\* Does building issue_info raise?  Every attribute read with the dot raises
\* when it is absent; getattr with a default and the truth tests do not.
issue_info_raises(issue) ==
    \/ Raises(issue, "key")
    \/ Raises(issue, "fields")
    \/ LET f == issue.obj.fields
       IN  \/ \E a \in {"summary", "priority", "labels", "assignee", "status",
                        "creator", "timespent", "project", "created",
                        "updated", "description"} : Raises(f, a)
           \/ Truthy(f.obj.assignee) /\ Raises(f.obj.assignee, "displayName")
           \/ Raises(f.obj.status, "name")
           \/ Raises(f.obj.creator, "displayName")
           \/ Raises(f.obj.project, "name")

issue_info(issue, sprint_name) ==
    LET f == issue.obj.fields
    IN  [c \in Range(IssueColumns) |->
          CASE c = "Issue Key" -> issue.obj.key
            [] c = "Summary" -> f.obj.summary
            [] c = "Priority" -> GetAttr(f.obj.priority, "name", Str("No Priority"))
            [] c = "Labels" -> f.obj.labels
            [] c = "Assignee" -> IF Truthy(f.obj.assignee)
                                 THEN f.obj.assignee.obj.displayName
                                 ELSE Str("Unassigned")
            [] c = "Status" -> f.obj.status.obj.name
            [] c = "Creator" -> f.obj.creator.obj.displayName
            [] c = "Custom Field 10160" -> GetAttr(f, "customfield_10160", NA)
            [] c = "Custom Field 10163" -> GetAttr(f, "customfield_10163", NA)
            [] c = "Custom Field 10175" -> GetAttr(f, "customfield_10175", NA)
            [] c = "Time Spent" -> IF Truthy(f.obj.timespent) THEN f.obj.timespent
                                   ELSE Str("No Time Spent")
            [] c = "Project" -> f.obj.project.obj.name
            [] c = "Created" -> f.obj.created
            [] c = "Updated" -> f.obj.updated
            [] c = "Description" -> IF Truthy(f.obj.description) THEN f.obj.description
                                    ELSE Str("No Description")
            [] c = "Sprint" -> sprint_name
            [] c = "E-mail Solicitante" -> GetAttr(f, "customfield_10090", NA)
            [] c = "Nome do Solicitante" -> GetAttr(f, "customfield_10089", NA)
            [] c = "Start Date" -> GetAttr(f, "customfield_10015", NA)
            [] c = "End Data" -> GetAttr(f, "customfield_10152", NA)
            [] c = "Parent" -> GetAttr(f, "parent", NA)]

\* The worklog part of a row for one time-log entry.
worklog_fields(worklog) ==
    [c \in Range(WorklogColumns) |->
      CASE c = "Worklog Author" -> GetAttr(worklog.obj.author, "displayName", Str("No Author"))
        [] c = "Worklog Comment" -> GetAttr(worklog, "comment", Str("No Comment"))
        [] c = "Worklog Created" -> GetAttr(worklog, "created", NA)
        [] c = "Worklog Started" -> GetAttr(worklog, "started", NA)
        [] c = "Worklog Time Spent" -> GetAttr(worklog, "timeSpent", NA)
        [] c = "Worklog Time Spent Seconds" -> GetAttr(worklog, "timeSpentSeconds", Num(0))]

no_worklog_fields_uniform ==
    [c \in Range(WorklogColumns) |->
      IF c = "Worklog Time Spent Seconds" THEN Num(0) ELSE Str("No Worklog")]

\* The worklog part of the row of an issue without time-log entries.
no_worklog_fields ==
    [c \in Range(WorklogColumns) |->
      CASE c = "Worklog Author" -> Str("No Worklog")
        [] c = "Worklog Comment" -> Str("No Worklog")
        [] c = "Worklog Created" -> NA
        [] c = "Worklog Started" -> NA
        [] c = "Worklog Time Spent" -> NA
        [] c = "Worklog Time Spent Seconds" -> Num(0)]

\* Lines 121-129 and 182-190: one row per time-log entry.
WorklogRows(info, worklogs) ==
    [i \in DOMAIN worklogs |-> info @@ worklog_fields(worklogs[i])]

NoWorklogRows_skipped(info) == <<>>

\* Lines 131-139 and 192-200: the single row of an issue without entries.
NoWorklogRows(info) == <<info @@ no_worklog_fields>>

\* The rows one issue appends to combined_data, or the AttributeError that
\* building them raises.
IssueRows(issue, sprint_name) ==
    IF issue_info_raises(issue)
       \/ Raises(issue.obj.fields, "worklog")
       \/ Raises(issue.obj.fields.obj.worklog, "worklogs")
    THEN [ok |-> FALSE, err |-> "AttributeError"]
    ELSE LET info == issue_info(issue, sprint_name)
             worklogs == issue.obj.fields.obj.worklog.obj.worklogs
         IN  IF Truthy(worklogs)
             THEN IF \E i \in DOMAIN worklogs.list : Raises(worklogs.list[i], "author")
                  THEN [ok |-> FALSE, err |-> "AttributeError"]
                  ELSE [ok |-> TRUE, rows |-> WorklogRows(info, worklogs.list)]
             ELSE [ok |-> TRUE, rows |-> NoWorklogRows(info)]

\* Concatenation of ss[lo..hi].
RECURSIVE Concat(_, _, _)
Concat(ss, lo, hi) ==
    IF lo > hi THEN <<>>
    ELSE IF lo = hi THEN ss[lo]
    ELSE LET mid == (lo + hi) \div 2
         IN  Concat(ss, lo, mid) \o Concat(ss, mid + 1, hi)

\* The for loop over the issues of one page: the rows of all issues in page
\* order, or the error of the first issue whose rows cannot be built.
PageRows(issues, sprint_name) ==
    LET res == [i \in DOMAIN issues |-> IssueRows(issues[i], sprint_name)]
        bad == {i \in DOMAIN res : ~res[i].ok}
    IN  IF bad # {}
        THEN [ok |-> FALSE, err |-> res[CHOOSE i \in bad : \A j \in bad : i <= j].err]
        ELSE [ok |-> TRUE,
              rows |-> Concat([i \in DOMAIN res |-> res[i].rows], 1, Len(issues))]

\* ------------------------------------------------------------------------
\* Bounds of the model
\* ------------------------------------------------------------------------
MaxSprints == 2
MaxIssues == 2
MaxWorklogs == 2
MaxFullPages == 1

\* ------------------------------------------------------------------------
\* The remote issue tracker (the data behind jira.sprints and
\* jira.search_issues), described by a small record `remote`:
\*   nSprints  number of active/closed sprints of the board (ids 1..nSprints;
\*             sprint nSprints + 1 is a future sprint)
\*   focus     the query (sprint id, 0 = sprint-less) holding `total` issues
\*   total     number of issues of the focus query
\*   others    number of issues of every other query
\*   pos       position, in the focus query, of the issue of shape `shape`
\*             (0 = none); every other issue is plain
\*   shape     [nWorklogs, on, attr, mode]
\* ------------------------------------------------------------------------
DefaultProject == "Gestão de Atividades"
OtherProject == "Outro Projeto"

TS1 == <<"2","0","2","4","-","0","3","-","0","5","T","1","4",":","3","0",":",
         "0","0",".","0","0","0","0","0","0","+","0","0","0","0">>
TS1Formatted == <<"0","5","/","0","3","/","2","0","2","4"," ","1","4",":","3","0",":","0","0">>
TS2 == <<"2","0","2","3","-","1","2","-","3","1","T","2","3",":","5","9",":",
         "5","9",".","1","2","3","4","5","6","-","0","3","0","0">>
BadTS == <<"2","0","2","4","-","0","2","-","3","0","T","1","4",":","3","0",":",
           "0","0",".","0","0","0","0","0","0","+","0","0","0","0">>

Text(prefix, n) == Chars(<<prefix>> \o YearDigits(n))

OptionalIssueAttrs ==
    {"priority", "assignee", "customfield_10160", "customfield_10163",
     "customfield_10175", "customfield_10090", "customfield_10089",
     "customfield_10015", "customfield_10152", "timespent", "description",
     "parent"}
OptionalWorklogAttrs ==
    {"author", "comment", "created", "started", "timeSpent", "timeSpentSeconds"}

\* Modes of a shape: the attribute is absent, holds null, or (dates only)
\* holds a text that is not in the source format / an earlier timestamp.
Without(f, a) == [x \in (DOMAIN f) \ {a} |-> f[x]]
Shaped(attrs, a, mode) ==
    CASE mode = "absent" -> Without(attrs, a)
      [] mode = "null" -> [attrs EXCEPT ![a] = None]
      [] mode = "formatted" -> [attrs EXCEPT ![a] = Chars(TS1Formatted)]
      [] mode = "nodate" -> [attrs EXCEPT ![a] = Chars(BadTS)]
      [] mode = "other" -> [attrs EXCEPT ![a] = Chars(TS2)]
      [] OTHER -> attrs

PlainWorklog(k) ==
    [author |-> Obj([displayName |-> Text("U", k)]),
     comment |-> Text("c", k),
     created |-> Chars(TS1),
     started |-> Chars(TS2),
     timeSpent |-> Str("1h"),
     timeSpentSeconds |-> Num(3600 * k)]

PlainShape(n) == [nWorklogs |-> n, on |-> "none", attr |-> "", mode |-> ""]

MkWorklogs(shape) ==
    [k \in 1..shape.nWorklogs |->
        Obj(IF shape.on = "worklog" /\ k = shape.nWorklogs
            THEN Shaped(PlainWorklog(k), shape.attr, shape.mode)
            ELSE PlainWorklog(k))]

PlainFields(project, shape) ==
    [summary |-> Str("summary"),
     priority |-> Obj([name |-> Str("High")]),
     labels |-> List(<<Str("etl")>>),
     assignee |-> Obj([displayName |-> Str("Ana")]),
     status |-> Obj([name |-> Str("Done")]),
     creator |-> Obj([displayName |-> Str("Bia")]),
     customfield_10160 |-> Str("cf10160"),
     customfield_10163 |-> Str("cf10163"),
     customfield_10175 |-> Str("cf10175"),
     timespent |-> Num(7200),
     project |-> Obj([name |-> Str(project)]),
     created |-> Chars(TS1),
     updated |-> Chars(TS2),
     description |-> Str("description"),
     customfield_10090 |-> Str("ana@example.com"),
     customfield_10089 |-> Str("Ana"),
     customfield_10015 |-> Str("2024-03-01"),
     customfield_10152 |-> Str("2024-03-31"),
     parent |-> Obj([key |-> Str("IW-1")]),
     worklog |-> Obj([worklogs |-> List(MkWorklogs(shape))])]

\* The issue number i (1-based, creation time descending) of a query.
MkIssue(project, sprint, i, shape) ==
    Obj([key |-> Text(IF project = DefaultProject THEN "G" ELSE "O", 1000 * sprint + i),
         fields |-> Obj(IF shape.on = "issue"
                        THEN Shaped(PlainFields(project, shape), shape.attr, shape.mode)
                        ELSE PlainFields(project, shape))])

\* JQL: "project = '<project>' AND sprint = <id> ORDER BY created DESC", or
\* "... AND sprint is EMPTY ..." (sprint = 0).
Jql(project, sprint) == [project |-> project, sprint |-> sprint]

RemoteTotal(r, jql) ==
    IF jql.sprint \notin 0..r.nSprints THEN 0
    ELSE IF jql.project = OtherProject THEN 1
    ELSE IF jql.project # DefaultProject THEN 0
    ELSE IF jql.sprint = r.focus THEN r.total
    ELSE r.others

RemoteIssue(r, jql, i) ==
    MkIssue(jql.project, jql.sprint, i,
            IF jql.project = DefaultProject /\ jql.sprint = r.focus /\ i = r.pos
            THEN r.shape
            ELSE PlainShape((i - 1) % (MaxWorklogs + 1)))

Min(a, b) == IF a <= b THEN a ELSE b
Max(a, b) == IF a >= b THEN a ELSE b

\* jira.search_issues(jql_query, startAt=, maxResults=): one page.
search_issues(r, jql, startAt, maxResults) ==
    [i \in 1..Min(maxResults, Max(0, RemoteTotal(r, jql) - startAt)) |->
        RemoteIssue(r, jql, startAt + i)]

\* The sprints of the board, and jira.sprints(board_id, state=...).
BoardSprints(r) ==
    [s \in 1..(r.nSprints + 1) |->
        [id |-> s, name |-> Text("S", s),
         state |-> IF s > r.nSprints THEN "future"
                   ELSE IF s % 2 = 1 THEN "closed" ELSE "active"]]

sprints(r, states) ==
    LET Wanted(sp) == sp.state \in states
    IN  SelectSeq(BoardSprints(r), Wanted)

\* ------------------------------------------------------------------------
\* State
\* ------------------------------------------------------------------------
VARIABLES
    args,            \* jira_server, email, api_token, board_id arguments
    project_key,     \* the project_key argument
    env,             \* environment after load_dotenv()
    remote,          \* the remote issue tracker
    file,            \* <output_path>/<output_name> on disk
    pc,              \* position of main
    conf,            \* jira_server, email, api_token, board_id after fallback
    sprint_map,      \* sequence of [id, name], in dict insertion order
    sprint_i,        \* position of the for loop in sprint_map
    jql_query,
    start_at,
    max_results,     \* Unbound until line 87 assigns it
    combined_data,
    calls,           \* calls made to the remote service so far
    log,             \* entries written to the loguru sink
    frames,          \* DataFrame objects by identity
    extracted_data,  \* main's reference to the extractor's result (0 = unset)
    transformed_data,\* main's reference to the transformer's result
    transform_input, \* value of the frame passed to the transformer, at the call
    raised,          \* the exception as first raised, with its stage
    main_error       \* the exception that leaves main

vars == <<args, project_key, env, remote, file, pc, conf, sprint_map, sprint_i, jql_query,
          start_at, max_results, combined_data, calls, log, frames,
          extracted_data, transformed_data, transform_input, raised, main_error>>

Unbound == [unbound |-> TRUE]
NoError == [type |-> "none"]
NoFile == [exists |-> FALSE]
OldFile == [exists |-> TRUE, header |-> <<"old">>, lines |-> <<>>]
NoJql == Jql("", 0)
NoFrame == [columns |-> <<>>, rows |-> <<>>]

Params == {"jira_server", "email", "api_token", "board_id"}
EnvName(p) ==
    CASE p = "jira_server" -> "JIRA_SERVER"
      [] p = "email" -> "JIRA_EMAIL"
      [] p = "api_token" -> "JIRA_API_TOKEN"
      [] p = "board_id" -> "JIRA_BOARD_ID"

\* ------------------------------------------------------------------------
\* Logging and the decorators
\* ------------------------------------------------------------------------
Info(by, fn, msg) == [level |-> "INFO", by |-> by, fn |-> fn, msg |-> msg]
Error(by, fn, msg, e) == [level |-> "ERROR", by |-> by, fn |-> fn, msg |-> msg, err |-> e]

\* The except clause of the stage that catches e: it logs and re-raises.
stage_except(fn, e) ==
    LET msg ==
          CASE fn = "jira_extraction" -> "Um erro ocorreu ao extrair os dados do JIRA"
            [] fn = "transform_extracted_data" ->
                 IF e.type = "ValueError" THEN "Erro de valor"
                 ELSE "Erro ao transformar os dados extraídos"
            [] fn = "load_extraction" ->
                 CASE e.type = "FileNotFoundError" -> "Erro: Caminho não encontrado"
                   [] e.type = "PermissionError" -> "Erro: Permissão negada"
                   [] e.type = "OSError" -> "Erro do sistema operacional"
                   [] e.type = "ValueError" -> "Erro ao salvar o DataFrame"
                   [] OTHER -> "Ocorreu um erro inesperado"
    IN  [log |-> <<Error("stage", fn, msg, e)>>, raise |-> e]

log_decorator_except_wrapping(fn, e) ==
    [log |-> <<Error("log_decorator", fn, "Erro", e)>>,
     raise |-> [type |-> "Exception", at |-> "log_decorator"]]

\* except Exception as e: logger.error(f'Erro: {e}'); raise
log_decorator_except(fn, e) ==
    [log |-> <<Error("log_decorator", fn, "Erro", e)>>, raise |-> e]

time_decorator_except(fn, e) ==
    [log |-> <<Error("time_decorator", fn, "Erro", e)>>, raise |-> e]

\* Entry and normal exit of time_decorator(log_decorator(fn)).
Enter(fn) == <<Info("log_decorator", fn, "Executando a função")>>
Exit(fn) == <<Info("log_decorator", fn, "Execução da função finalizada"),
              Info("time_decorator", fn, "A função levou")>>

\* Exception e raised in the body of stage fn, after the stage wrote lg:
\* the stage's handler, log_decorator and time_decorator each log it and
\* re-raise; main has no handler, so the error leaves main.
Fail(fn, e, lg) ==
    LET b == stage_except(fn, e)
        l == log_decorator_except(fn, b.raise)
        t == time_decorator_except(fn, l.raise)
    IN  /\ log' = lg \o b.log \o l.log \o t.log
        /\ raised' = [stage |-> fn, exc |-> e]
        /\ main_error' = t.raise
        /\ pc' = "failed"

Exc(type, at) == [type |-> type, at |-> at]

\* ------------------------------------------------------------------------
\* jira_extraction
\* ------------------------------------------------------------------------
\* a or b
Or(a, b) == IF Truthy(a) THEN a ELSE b

\* Lines 64-69: the environment is consulted only when an argument is None.
resolve_config(a, e) ==
    IF \E p \in Params : IsNone(a[p])
    THEN [p \in Params |-> Or(a[p], e[EnvName(p)])]
    ELSE [p \in Params |-> a[p]]

\* Lines 63-72 (and the decorators' entry).
jira_extraction_config ==
    /\ pc = "main_8"
    /\ LET c == resolve_config(args, env)
       IN  IF \E p \in Params : ~Truthy(c[p])
           THEN /\ Fail("jira_extraction", Exc("ValueError", "config"),
                        log \o Enter("jira_extraction"))
                /\ UNCHANGED conf
           ELSE /\ conf' = c
                /\ log' = log \o Enter("jira_extraction")
                /\ pc' = "connect"
                /\ UNCHANGED <<raised, main_error>>
    /\ UNCHANGED <<args, project_key, env, remote, file, sprint_map, sprint_i, jql_query,
                   start_at, max_results, combined_data, calls, frames,
                   extracted_data, transformed_data, transform_input>>

\* Lines 74-75: JIRA(server=, basic_auth=) contacts the server.
jira_connect ==
    /\ pc = "connect"
    /\ calls' = Append(calls, [op |-> "JIRA", server |-> conf.jira_server,
                               basic_auth |-> <<conf.email, conf.api_token>>])
    /\ \E ok \in BOOLEAN :
         IF ok
         THEN /\ log' = Append(log, Info("stage", "jira_extraction", "Conexão bem sucedida"))
              /\ pc' = "sprints"
              /\ UNCHANGED <<raised, main_error>>
         ELSE Fail("jira_extraction", Exc("JIRAError", "JIRA"), log)
    /\ UNCHANGED <<args, project_key, env, remote, file, conf, sprint_map, sprint_i, jql_query,
                   start_at, max_results, combined_data, frames,
                   extracted_data, transformed_data, transform_input>>

\* Lines 77-83: the sprint map and the empty combined_data.
jira_sprints ==
    /\ pc = "sprints"
    /\ calls' = Append(calls, [op |-> "sprints", board_id |-> conf.board_id,
                               state |-> {"active", "closed"}])
    /\ \E ok \in BOOLEAN :
         IF ok
         THEN LET sp == sprints(remote, {"active", "closed"})
              IN  /\ sprint_map' = [i \in DOMAIN sp |-> [id |-> sp[i].id, name |-> sp[i].name]]
                  /\ sprint_i' = 1
                  /\ combined_data' = <<>>
                  /\ log' = log \o <<Info("stage", "jira_extraction", "Foram encontradas sprints"),
                                     Info("stage", "jira_extraction", "Processando issues com sprints")>>
                  /\ pc' = "sprint_for"
                  /\ UNCHANGED <<raised, main_error>>
         ELSE /\ Fail("jira_extraction", Exc("JIRAError", "sprints"), log)
              /\ UNCHANGED <<sprint_map, sprint_i, combined_data>>
    /\ UNCHANGED <<args, project_key, env, remote, file, conf, jql_query, start_at, max_results,
                   frames, extracted_data, transformed_data, transform_input>>

\* Lines 85 and 147: the query text names the project literally; the
\* project_key argument is not used.
sprint_query(key, sprint_id) == Jql(DefaultProject, sprint_id)
sprintless_query(key) == Jql(DefaultProject, 0)

\* Lines 84-87: the next sprint of the for loop.
sprint_next ==
    /\ pc = "sprint_for"
    /\ sprint_i <= Len(sprint_map)
    /\ jql_query' = sprint_query(project_key, sprint_map[sprint_i].id)
    /\ start_at' = 0
    /\ max_results' = Num(100)
    /\ pc' = "sprint_while"
    /\ UNCHANGED <<args, project_key, env, remote, file, conf, sprint_map, sprint_i,
                   combined_data, calls, log, frames, extracted_data,
                   transformed_data, transform_input, raised, main_error>>

LastPage_whenEmpty(n, page_size) == n = 0

\* Lines 142-143 and 203-204: the loop ends on a page shorter than the
\* page size.
LastPage(n, page_size) == n < page_size

\* One iteration of a while loop (lines 90-143 and 151-204): one page is
\* requested, its issues become rows, and the loop ends on a short page.
Page(sprint_name, after) ==
    IF max_results = Unbound
    THEN /\ Fail("jira_extraction", Exc("UnboundLocalError", "max_results"), log)
         /\ UNCHANGED <<calls, combined_data, start_at>>
    ELSE
      /\ calls' = Append(calls, [op |-> "search_issues", jql |-> jql_query,
                                 startAt |-> start_at, maxResults |-> max_results.int])
      /\ \E ok \in BOOLEAN :
           IF ok
           THEN LET issues == search_issues(remote, jql_query, start_at, max_results.int)
                    found == Append(log, [level |-> "INFO", by |-> "stage",
                                          fn |-> "jira_extraction", msg |-> "Encontrado",
                                          n |-> Len(issues), at |-> start_at])
                    built == PageRows(issues, sprint_name)
                IN  IF built.ok
                    THEN /\ combined_data' = combined_data \o built.rows
                         /\ start_at' = start_at + max_results.int
                         /\ log' = found
                         /\ pc' = IF LastPage(Len(issues), max_results.int) THEN after ELSE pc
                         /\ UNCHANGED <<raised, main_error>>
                    ELSE /\ Fail("jira_extraction", Exc(built.err, "row"), found)
                         /\ UNCHANGED <<combined_data, start_at>>
           ELSE /\ Fail("jira_extraction", Exc("JIRAError", "search_issues"), log)
                /\ UNCHANGED <<combined_data, start_at>>

sprint_page ==
    /\ pc = "sprint_while"
    /\ Page(sprint_map[sprint_i].name, "sprint_for")
    /\ sprint_i' = IF pc' = "sprint_for" THEN sprint_i + 1 ELSE sprint_i
    /\ UNCHANGED <<args, project_key, env, remote, file, conf, sprint_map, jql_query,
                   max_results, frames, extracted_data, transformed_data,
                   transform_input>>

\* Lines 145-150: after the for loop.
sprintless_begin ==
    /\ pc = "sprint_for"
    /\ sprint_i > Len(sprint_map)
    /\ jql_query' = sprintless_query(project_key)
    /\ start_at' = 0
    /\ log' = log \o <<Info("stage", "jira_extraction", "Processamento finalizado"),
                       Info("stage", "jira_extraction", "Processando issues sem sprints")>>
    /\ pc' = "sprintless_while"
    /\ UNCHANGED <<args, project_key, env, remote, file, conf, sprint_map, sprint_i,
                   max_results, combined_data, calls, frames, extracted_data,
                   transformed_data, transform_input, raised, main_error>>

sprintless_page ==
    /\ pc = "sprintless_while"
    /\ Page(Str("No Sprint"), "extract_return")
    /\ UNCHANGED <<args, project_key, env, remote, file, conf, sprint_map, sprint_i, jql_query,
                   max_results, frames, extracted_data, transformed_data,
                   transform_input>>

\* pd.DataFrame(list of dicts): the columns are the keys, in order of first
\* appearance; an empty list gives a frame without columns.
DataFrame(data) ==
    [columns |-> IF data = <<>> THEN <<>> ELSE IssueColumns \o WorklogColumns,
     rows |-> data]

\* Lines 206-210 (and the decorators' exit); main line 8 binds the result.
jira_extraction_return ==
    /\ pc = "extract_return"
    /\ frames' = Append(frames, DataFrame(combined_data))
    /\ extracted_data' = Len(frames) + 1
    /\ log' = log \o <<Info("stage", "jira_extraction", "Processamento finalizado"),
                       Info("stage", "jira_extraction", "Extração concluída")>>
                  \o Exit("jira_extraction")
    /\ pc' = "main_9"
    /\ UNCHANGED <<args, project_key, env, remote, file, conf, sprint_map, sprint_i, jql_query,
                   start_at, max_results, combined_data, calls,
                   transformed_data, transform_input, raised, main_error>>

\* ------------------------------------------------------------------------
\* transform_extracted_data
\* ------------------------------------------------------------------------
date_columns == <<"Worklog Created", "Worklog Started">>

\* The least element of a non-empty set of row numbers.
First(bad) == CHOOSE i \in bad : \A j \in bad : i <= j

\* The assignment of line 244, given the outcome res of reformat_date on
\* every row: the new column is assigned only when reformat_date succeeded
\* on every row (bad is empty); otherwise the error of the first failing row
\* is raised and the frame is left as it is.
assign_column(df, col, res, bad) ==
    IF bad # {}
    THEN [ok |-> FALSE, err |-> res[First(bad)].err, frame |-> df]
    ELSE [ok |-> TRUE,
          frame |-> [df EXCEPT !.rows =
                        [i \in DOMAIN df.rows |-> [df.rows[i] EXCEPT ![col] = res[i].value]]]]

Failed(res) == {i \in DOMAIN res : ~res[i].ok}

applied(df, col, res) == assign_column(df, col, res, Failed(res))

\* extracted_data[col] = extracted_data[col].apply(reformat_date)
apply_column(df, col) ==
    applied(df, col, [i \in DOMAIN df.rows |-> reformat_date(df.rows[i][col])])

\* The second iteration of the loop of lines 243-244, on its outcome.
second_column(second) ==
    IF ~second.ok
    THEN [ok |-> FALSE, err |-> second.err, at |-> date_columns[2], frame |-> second.frame]
    ELSE [ok |-> TRUE, frame |-> second.frame]

\* The loop of lines 243-244, given the outcome of its first iteration.
first_column(first) ==
    IF ~first.ok
    THEN [ok |-> FALSE, err |-> first.err, at |-> date_columns[1], frame |-> first.frame]
    ELSE second_column(apply_column(first.frame, date_columns[2]))

\* Lines 236-246 on the frame object df: the outcome and the state in which
\* the object is left.
transform_body(df) ==
    IF \E k \in DOMAIN date_columns : date_columns[k] \notin Range(df.columns)
    THEN [ok |-> FALSE, err |-> "ValueError", at |-> "columns", frame |-> df]
    ELSE first_column(apply_column(df, date_columns[1]))

\* The whole call of main line 9: the frame is modified in place and the
\* same object is returned.
transform_extracted_data ==
    /\ pc = "main_9"
    /\ transform_input' = frames[extracted_data]
    /\ LET out == transform_body(frames[extracted_data])
       IN  /\ frames' = [frames EXCEPT ![extracted_data] = out.frame]
           /\ IF out.ok
              THEN /\ transformed_data' = extracted_data
                   /\ log' = log \o Enter("transform_extracted_data")
                                 \o Exit("transform_extracted_data")
                   /\ pc' = "main_10"
                   /\ UNCHANGED <<raised, main_error>>
              ELSE /\ Fail("transform_extracted_data", Exc(out.err, out.at),
                           log \o Enter("transform_extracted_data"))
                   /\ UNCHANGED transformed_data
    /\ UNCHANGED <<args, project_key, env, remote, file, conf, sprint_map, sprint_i, jql_query,
                   start_at, max_results, combined_data, calls, extracted_data>>

\* ------------------------------------------------------------------------
\* load_extraction
\* ------------------------------------------------------------------------
\* DataFrame.to_csv(output, index=False): a header line and one line per row,
\* the values in column order.
to_csv(df) ==
    [exists |-> TRUE,
     header |-> df.columns,
     lines |-> [i \in DOMAIN df.rows |->
                  [j \in DOMAIN df.columns |-> df.rows[i][df.columns[j]]]]]

LoadOutcomes == {"ok", "FileNotFoundError", "PermissionError", "OSError"}

\* The whole call of main line 10: the directory is created when missing and
\* the file is written, unless the file system refuses.
load_extraction ==
    /\ pc = "main_10"
    /\ \E outcome \in LoadOutcomes :
         IF outcome = "ok"
         THEN /\ file' = to_csv(frames[transformed_data])
              /\ log' = log \o Enter("load_extraction")
                            \o <<Info("stage", "load_extraction", "Arquivo salvo com sucesso")>>
                            \o Exit("load_extraction")
              /\ pc' = "done"
              /\ UNCHANGED <<raised, main_error>>
         ELSE /\ Fail("load_extraction", Exc(outcome, "io"), log \o Enter("load_extraction"))
              /\ UNCHANGED file
    /\ UNCHANGED <<args, project_key, env, remote, conf, sprint_map, sprint_i, jql_query,
                   start_at, max_results, combined_data, calls, frames,
                   extracted_data, transformed_data, transform_input>>

\* ------------------------------------------------------------------------
\* Initial states
\* ------------------------------------------------------------------------
\* main() calls jira_extraction() without arguments.
MainArgs == [p \in Params |-> None]
GoodEnv ==
    [n \in {EnvName(p) : p \in Params} |-> Str("env")]

\* Totals around the page boundaries.
Totals ==
    {t \in 0..(100 * (MaxFullPages + 1)) :
        \E k \in 0..MaxFullPages, d \in {0, 1, 99} : t = 100 * k + d}

IssueShapes ==
    {[nWorklogs |-> n, on |-> "issue", attr |-> a, mode |-> m] :
        n \in {0, MaxWorklogs}, a \in OptionalIssueAttrs, m \in {"absent", "null"}}
WorklogShapes ==
    {[nWorklogs |-> n, on |-> "worklog", attr |-> a, mode |-> m] :
        n \in {1, MaxWorklogs}, a \in OptionalWorklogAttrs, m \in {"absent", "null"}}
DateShapes ==
    {[nWorklogs |-> n, on |-> "worklog", attr |-> a, mode |-> m] :
        n \in {1, MaxWorklogs}, a \in {"created", "started"},
        m \in {"formatted", "nodate", "other"}}
Shapes ==
    {PlainShape(n) : n \in 0..MaxWorklogs} \cup IssueShapes \cup WorklogShapes \cup DateShapes

\* One query with a total around a page boundary, plain issues.
PagingRemotes ==
    {[nSprints |-> n, focus |-> q, total |-> t, others |-> 1, pos |-> 0,
      shape |-> PlainShape(0)] :
        n \in 0..MaxSprints, q \in 0..MaxSprints, t \in Totals}

\* Few issues, one of them of any shape; and the tracker without issues.
RowRemotes ==
    {[nSprints |-> n, focus |-> q, total |-> t, others |-> 1, pos |-> p,
      shape |-> sh] :
        n \in 0..MaxSprints, q \in 0..MaxSprints, t \in 0..MaxIssues,
        p \in 0..MaxIssues, sh \in Shapes}
    \cup
    {[nSprints |-> n, focus |-> 0, total |-> 0, others |-> 0, pos |-> 0,
      shape |-> PlainShape(0)] : n \in 0..MaxSprints}

InitProgram ==
    /\ pc = "main_8"
    /\ conf = [p \in Params |-> None]
    /\ sprint_map = <<>>
    /\ sprint_i = 0
    /\ jql_query = NoJql
    /\ start_at = 0
    /\ max_results = Unbound
    /\ combined_data = <<>>
    /\ calls = <<>>
    /\ log = <<>>
    /\ frames = <<>>
    /\ extracted_data = 0
    /\ transformed_data = 0
    /\ transform_input = NoFrame
    /\ raised = [stage |-> "", exc |-> NoError]
    /\ main_error = NoError

InitRows ==
    /\ args = MainArgs
    /\ project_key \in {DefaultProject, OtherProject}
    /\ env = GoodEnv
    /\ remote \in {r \in RowRemotes :
                     /\ r.focus <= r.nSprints
                     /\ r.pos <= r.total
                     /\ (r.pos = 0) = (r.shape = PlainShape(0))
                     /\ (project_key = OtherProject) => (r.pos = 0)}
    /\ file = OldFile
    /\ InitProgram

InitPaging ==
    /\ args = MainArgs
    /\ project_key = DefaultProject
    /\ env = GoodEnv
    /\ remote \in {r \in PagingRemotes : r.focus <= r.nSprints}
    /\ file = NoFile
    /\ InitProgram

Init == InitRows \/ InitPaging

ArgValues == {None, Str(""), Str("arg")}
EnvValues == {None, Str(""), Str("env")}

InitConfig ==
    /\ args \in [Params -> ArgValues]
    /\ project_key = DefaultProject
    /\ env \in [{EnvName(p) : p \in Params} -> EnvValues]
    /\ remote = [nSprints |-> 1, focus |-> 1, total |-> 1, others |-> 1, pos |-> 0,
                 shape |-> PlainShape(0)]
    /\ file = NoFile
    /\ InitProgram

Next ==
    \/ jira_extraction_config
    \/ jira_connect
    \/ jira_sprints
    \/ sprint_next
    \/ sprint_page
    \/ sprintless_begin
    \/ sprintless_page
    \/ jira_extraction_return
    \/ transform_extracted_data
    \/ load_extraction

Spec == Init /\ [][Next]_vars
SpecConfig == InitConfig /\ [][Next]_vars

\* ------------------------------------------------------------------------
\* Properties
\* ------------------------------------------------------------------------
SearchCalls == SelectSeq(calls, LAMBDA c : c.op = "search_issues")
QueriedJqls == {SearchCalls[k].jql : k \in DOMAIN SearchCalls}
QueryCalls(j) == SelectSeq(SearchCalls, LAMBDA c : c.jql = j)

\* The pagination loop of query j has run to its break.
QueryDone(j) ==
    /\ pc # "failed"
    /\ j \in QueriedJqls
    /\ ~(pc \in {"sprint_while", "sprintless_while"} /\ jql_query = j)

Ceil(a, b) == (a + b - 1) \div b

\* The issues the remote service returned, in the order of the requests.
ReturnedIssues ==
    Concat([k \in DOMAIN SearchCalls |->
              search_issues(remote, SearchCalls[k].jql, SearchCalls[k].startAt,
                            SearchCalls[k].maxResults)],
           1, Len(SearchCalls))

WorklogsOf(issue) == issue.obj.fields.obj.worklog.obj.worklogs.list

\* The collection jira_extraction has just returned to main.
Returned == pc = "main_9"
ReturnedRows == frames[extracted_data].rows

RowsOfIssue(issue) ==
    SelectSeq(ReturnedRows, LAMBDA r : r["Issue Key"] = issue.obj.key)

RECURSIVE SumMax1(_, _, _)
SumMax1(issues, lo, hi) ==
    IF lo > hi THEN 0
    ELSE IF lo = hi THEN Max(1, Len(WorklogsOf(issues[lo])))
    ELSE LET mid == (lo + hi) \div 2
         IN  SumMax1(issues, lo, mid) + SumMax1(issues, mid + 1, hi)

\* Row r carries the time-log entry w: every attribute the entry has is the
\* value of the corresponding worklog column.
WorklogAttrColumn(a) ==
    CASE a = "comment" -> "Worklog Comment"
      [] a = "created" -> "Worklog Created"
      [] a = "started" -> "Worklog Started"
      [] a = "timeSpent" -> "Worklog Time Spent"
      [] a = "timeSpentSeconds" -> "Worklog Time Spent Seconds"

Carries(r, w) ==
    /\ \A a \in (DOMAIN w.obj) \ {"author"} : r[WorklogAttrColumn(a)] = w.obj[a]
    /\ HasAttr(w.obj.author, "displayName")
         => r["Worklog Author"] = w.obj.author.obj.displayName

SameIssueFields(r1, r2) == \A c \in Range(IssueColumns) : r1[c] = r2[c]

\* C1: the returned collection holds, for every returned issue with N >= 1
\* time-log entries, exactly N rows with identical issue fields, the k-th
\* carrying the k-th entry, and exactly one row for every issue without
\* entries; the row count is the sum over the issues of max(1, N).
C1_RowsPerIssue ==
    Returned =>
      LET issues == ReturnedIssues
      IN  /\ Len(ReturnedRows) = SumMax1(issues, 1, Len(issues))
          /\ \A i \in DOMAIN issues :
               LET mine == RowsOfIssue(issues[i])
                   wl == WorklogsOf(issues[i])
               IN  /\ Len(mine) = Max(1, Len(wl))
                   /\ \A k \in DOMAIN mine : SameIssueFields(mine[k], mine[1])
                   /\ \A k \in DOMAIN wl : Carries(mine[k], wl[k])

\* An issue with two entries and an issue without entries were both returned,
\* over several sprints.
C1_Witness ==
    /\ Returned
    /\ Len(sprint_map) >= 2
    /\ \E i \in DOMAIN ReturnedIssues : Len(WorklogsOf(ReturnedIssues[i])) >= 2
    /\ \E i \in DOMAIN ReturnedIssues : Len(WorklogsOf(ReturnedIssues[i])) = 0
    /\ Len(ReturnedRows) > Len(ReturnedIssues)

\* C2: every returned issue without time-log entries, of a sprint query or of
\* the sprint-less query, has exactly one row, whose worklog fields are
\* 'No Worklog', 'No Worklog', 'N/A', 'N/A', 'N/A' and 0.
C2_NoWorklogSentinels ==
    Returned =>
      \A i \in DOMAIN ReturnedIssues :
        Len(WorklogsOf(ReturnedIssues[i])) = 0 =>
          LET mine == RowsOfIssue(ReturnedIssues[i])
          IN  /\ Len(mine) = 1
              /\ mine[1]["Worklog Author"] = Str("No Worklog")
              /\ mine[1]["Worklog Comment"] = Str("No Worklog")
              /\ mine[1]["Worklog Created"] = Chars(<<"N", "/", "A">>)
              /\ mine[1]["Worklog Started"] = Chars(<<"N", "/", "A">>)
              /\ mine[1]["Worklog Time Spent"] = Chars(<<"N", "/", "A">>)
              /\ mine[1]["Worklog Time Spent Seconds"] = Num(0)

\* Issues without entries were returned by a sprint query and by the
\* sprint-less query.
C2_Witness ==
    /\ Returned
    /\ \E i \in DOMAIN ReturnedIssues :
         /\ Len(WorklogsOf(ReturnedIssues[i])) = 0
         /\ RowsOfIssue(ReturnedIssues[i])[1]["Sprint"] = Str("No Sprint")
    /\ \E i \in DOMAIN ReturnedIssues :
         /\ Len(WorklogsOf(ReturnedIssues[i])) = 0
         /\ RowsOfIssue(ReturnedIssues[i])[1]["Sprint"] # Str("No Sprint")

\* C3 as stated: a pagination loop that ran to its end issued exactly
\* ceil(total / page size) search requests.
C3_CeilRequests ==
    \A j \in QueriedJqls :
      QueryDone(j) => Len(QueryCalls(j)) = Ceil(RemoteTotal(remote, j), 100)

\* C3 amended: the requests of one query use offsets 0, 100, 200, ... and
\* page size 100, each request after the first follows a full page, and a
\* loop that ran to its end issued exactly floor(total / 100) + 1 requests,
\* the last of them the first one to return fewer than 100 issues.
C3_FloorPlusOneRequests ==
    \A j \in QueriedJqls :
      LET qc == QueryCalls(j)
          total == RemoteTotal(remote, j)
      IN  /\ \A k \in DOMAIN qc :
               /\ qc[k].startAt = 100 * (k - 1)
               /\ qc[k].maxResults = 100
               /\ k < Len(qc) =>
                    Len(search_issues(remote, j, qc[k].startAt, qc[k].maxResults)) = 100
          /\ QueryDone(j) =>
               /\ Len(qc) = (total \div 100) + 1
               /\ Len(search_issues(remote, j, qc[Len(qc)].startAt, 100)) < 100

\* A query with exactly one full page of issues ended after a second, empty
\* page, and a query without issues ended after one request.
C3_Witness ==
    /\ \E j \in QueriedJqls :
         /\ QueryDone(j)
         /\ RemoteTotal(remote, j) = 100
         /\ Len(QueryCalls(j)) = 2
    /\ pc = "main_9"

C3_WitnessEmpty ==
    \E j \in QueriedJqls :
      QueryDone(j) /\ RemoteTotal(remote, j) = 0 /\ Len(QueryCalls(j)) = 1

ConfigError == raised = [stage |-> "jira_extraction", exc |-> Exc("ValueError", "config")]
Resolvable == \A p \in Params : Truthy(args[p]) \/ Truthy(env[EnvName(p)])

\* C4: the configuration error is raised, before any call to the remote
\* service, exactly when for one of the four values neither the argument nor
\* the environment variable supplies a non-empty value.
C4_ConfigErrorIffUnresolvable ==
    pc # "main_8" =>
      /\ ConfigError <=> ~Resolvable
      /\ ConfigError => calls = <<>>

\* C5: every issue query restricts the results to the project named by the
\* project_key argument, and the returned rows are rows of that project.
C5_QueriesUseProjectKey ==
    /\ \A k \in DOMAIN SearchCalls : SearchCalls[k].jql.project = project_key
    /\ Returned => \A i \in DOMAIN ReturnedRows :
                     ReturnedRows[i]["Project"] = Str(project_key)

SprintLabels == [i \in DOMAIN sprint_map |-> sprint_map[i].name] \o <<Str("No Sprint")>>
LabelIndex(v) == CHOOSE i \in DOMAIN SprintLabels : SprintLabels[i] = v

\* C9: whatever sprints the board returns, the empty set included, the
\* extractor fails only when the configuration is incomplete, the remote
\* service fails or a row cannot be built; it returns the rows of the sprints
\* in enumeration order, then the rows of the sprint-less issues, labelled
\* 'No Sprint'; the sprint-less requests use page size 100.
C9_AnySprintSetCompletes ==
    /\ raised.stage = "jira_extraction" =>
         raised.exc.at \in {"config", "JIRA", "sprints", "search_issues", "row"}
    /\ \A k \in DOMAIN SearchCalls : SearchCalls[k].maxResults = 100
    /\ Returned =>
         /\ \E k \in DOMAIN SearchCalls : SearchCalls[k].jql.sprint = 0
         /\ \A i \in DOMAIN ReturnedRows :
              /\ ReturnedRows[i]["Sprint"] \in Range(SprintLabels)
              /\ i > 1 => LabelIndex(ReturnedRows[i - 1]["Sprint"])
                            <= LabelIndex(ReturnedRows[i]["Sprint"])

OptionalColumns ==
    {"Priority", "Assignee", "Custom Field 10160", "Custom Field 10163",
     "Custom Field 10175", "E-mail Solicitante", "Nome do Solicitante",
     "Start Date", "End Data", "Time Spent", "Description", "Parent",
     "Worklog Author", "Worklog Comment", "Worklog Created", "Worklog Started",
     "Worklog Time Spent", "Worklog Time Spent Seconds"}

\* C10: when an optional field of a returned issue or time-log entry is
\* absent or null, building the row raises no error and the row holds the
\* field's sentinel, never null.
C10_OptionalFieldsGetSentinels ==
    /\ raised.exc # Exc("AttributeError", "row")
    /\ Returned => \A i \in DOMAIN ReturnedRows : \A c \in OptionalColumns :
                     ReturnedRows[i][c] # None

TransformCalled == pc \in {"main_10", "done", "failed"} /\ raised.stage # "jira_extraction"

\* C7: the transformer leaves the collection it was given as it was, whether
\* it returns or fails, and a result is a collection other than the input.
C7_InputUntouched ==
    TransformCalled =>
      /\ frames[extracted_data] = transform_input
      /\ transformed_data # 0 => transformed_data # extracted_data

Rewritten(v) ==
    LET c == v.chars
    IN  Chars(<<c[9], c[10], "/", c[6], c[7], "/", c[1], c[2], c[3], c[4], " ",
                c[12], c[13], ":", c[15], c[16], ":", c[18], c[19]>>)

TransformReturned == transformed_data # 0

\* C6: in the collection the transformer returns, exactly 'Worklog Created'
\* and 'Worklog Started' are rewritten: a source-format timestamp
\* YYYY-MM-DDTHH:MM:SS.ffffff+ZZZZ becomes DD/MM/YYYY HH:MM:SS (the example of
\* the specification included), null and 'N/A' stay; every other field,
\* 'Created' and 'Updated' included, the number of rows and their order are
\* those of the input.
C6_OnlyWorklogDatesRewritten ==
    TransformReturned =>
      LET out == frames[transformed_data]
          inp == transform_input
      IN  /\ out.columns = inp.columns
          /\ Len(out.rows) = Len(inp.rows)
          /\ \A i \in DOMAIN out.rows :
               /\ DOMAIN out.rows[i] = DOMAIN inp.rows[i]
               /\ \A c \in (DOMAIN out.rows[i]) \ Range(date_columns) :
                    out.rows[i][c] = inp.rows[i][c]
               /\ \A c \in Range(date_columns) :
                    LET v == inp.rows[i][c]
                    IN  /\ (IsNone(v) \/ v = Chars(<<"N", "/", "A">>)) => out.rows[i][c] = v
                        /\ (IsChars(v) /\ Len(v.chars) = 31) => out.rows[i][c] = Rewritten(v)
                        /\ v = Chars(TS1) => out.rows[i][c] = Chars(TS1Formatted)

\* A returned collection with a rewritten timestamp, a kept 'N/A', and the
\* issue timestamps still in source format.
C6_Witness ==
    /\ TransformReturned
    /\ \E i \in DOMAIN frames[transformed_data].rows :
         LET r == frames[transformed_data].rows[i]
         IN  /\ r["Worklog Created"] = Chars(TS1Formatted)
             /\ r["Created"] = Chars(TS1)
             /\ transform_input.rows[i]["Worklog Created"] = Chars(TS1)
    /\ \E i \in DOMAIN frames[transformed_data].rows :
         frames[transformed_data].rows[i]["Worklog Started"] = Chars(<<"N", "/", "A">>)

Completed(fn) == \E j \in DOMAIN log : log[j] = Exit(fn)[2]
Started(fn) == \E j \in DOMAIN log : log[j].fn = fn
LaterStages(fn) ==
    CASE fn = "jira_extraction" -> {"transform_extracted_data", "load_extraction"}
      [] fn = "transform_extracted_data" -> {"load_extraction"}
      [] OTHER -> {}

\* C8: the stages run in the order extract, transform, load, each after the
\* previous one completed; when extraction or transformation raises, no later
\* stage starts, the output file is neither created nor overwritten, and the
\* error leaving main is the stage's original error, logged by the stage
\* before it is re-raised.
C8_StagesInOrder ==
    /\ Started("transform_extracted_data") => Completed("jira_extraction")
    /\ Started("load_extraction") => Completed("transform_extracted_data")
    /\ file \notin {NoFile, OldFile} => Started("load_extraction")
    /\ raised.exc # NoError =>
         /\ pc = "failed"
         /\ main_error = raised.exc
         /\ Len(log) >= 3
         /\ log[Len(log) - 2].level = "ERROR"
         /\ log[Len(log) - 2].by = "stage"
         /\ log[Len(log) - 2].fn = raised.stage
         /\ log[Len(log) - 2].err = raised.exc
         /\ \A fn \in LaterStages(raised.stage) : ~Started(fn)
         /\ raised.stage \in {"jira_extraction", "transform_extracted_data"}
              => file \in {NoFile, OldFile}
    /\ pc = "failed" => raised.exc # NoError

\* The transformer failed on an extracted collection while an older output
\* file existed.
C8_Witness ==
    /\ pc = "failed"
    /\ raised.stage = "transform_extracted_data"
    /\ Completed("jira_extraction")
    /\ file = OldFile

====
